---- MODULE Spec2Model ----
(***************************************************************************)
(* add_fffits_metadata.py: the batch driver main() and the per-file        *)
(* pipeline add_fffits_metadata(), as a state machine.                     *)
(*                                                                         *)
(* A FITS file is a sequence of HDUs, an HDU is its header, a header is a  *)
(* sequence of cards <<key, value>>.  Values are tagged tuples, so that    *)
(* two values of different kinds are different and comparable.             *)
(* Up to two driver instances run against the same working directory,      *)
(* each on a directory of its own; the only state they share is the file   *)
(* platepar_tmp.cal.                                                       *)
(***************************************************************************)
EXTENDS Integers, Sequences, FiniteSets

\* ---------------------------------------------------------------- bounds
MaxFiles == 3      \* files matched by the glob in one directory
MaxHdus == 2       \* header segments of one file
MaxRuns == 2       \* times the driver is run over one directory

\* ------------------------------------------------------ program constants
NFRAMES == 256     \* header_meta["NFRAMES"], and the numerator of EXPTIME

Instances == {1, 2}

\* ---------------------------------------------------------------- values
Str(s) == <<"str", s>>
Num(n, d) == <<"num", n, d>>
Chars(cs) == <<"chars", cs>>

RECURSIVE Gcd(_, _)
Gcd(a, b) == IF b = 0 THEN a ELSE Gcd(b, a % b)

\* a / b for a positive b, as the exact quotient in lowest terms
Quot(a, b) ==
    LET g == Gcd(IF a < 0 THEN -a ELSE a, b)
    IN  Num(a \div g, b \div g)

\* round(x, 2) of a coordinate held in thousandths of a degree: the nearest
\* hundredth, a tie going to the even one
Round2(x) ==
    LET lo == x \div 10
        r == x % 10
        h == IF r > 5 \/ (r = 5 /\ lo % 2 = 1) THEN lo + 1 ELSE lo
    IN  Quot(h, 100)

\* str.strip() on a sequence of characters
RECURSIVE LStrip(_)
LStrip(s) == IF s # <<>> /\ Head(s) = " " THEN LStrip(Tail(s)) ELSE s

RECURSIVE RStrip(_)
RStrip(s) ==
    IF s # <<>> /\ s[Len(s)] = " " THEN RStrip(SubSeq(s, 1, Len(s) - 1)) ELSE s

Strip(s) == RStrip(LStrip(s))

\* --------------------------------------------------------------- headers
\* key in header
HasKey(h, key) == \E n \in 1..Len(h) : h[n][1] = key

\* header[key]: the value of the first card of that key
HeaderGet(h, key) ==
    h[CHOOSE n \in 1..Len(h) :
          h[n][1] = key /\ \A m \in 1..(n - 1) : h[m][1] # key][2]

\* header.append((key, value)): a new card at the end, duplicates kept
HeaderAppend(h, key, value) == Append(h, <<key, value>>)

\* header[key] = value: the first card of that key is updated, and a key the
\* header does not hold gets a new card at the end
HeaderSet(h, key, value) ==
    IF HasKey(h, key)
    THEN [n \in 1..Len(h) |->
            IF h[n][1] = key /\ ~HasKey(SubSeq(h, 1, n - 1), key)
            THEN <<key, value>> ELSE h[n]]
    ELSE Append(h, <<key, value>>)

\* ------------------------------------------------------------- pipeline
\* The keys the fixed metadata set writes.
FixedKeys ==
    {"OBSERVER", "INSTRUME", "MJD-OBS", "DATE-OBS", "NFRAMES", "EXPTIME",
     "SITELONG", "SITELAT"}

\* The projection keywords of the serialised WCS.
WcsKeys == {"CTYPE1", "CRVAL1"}

\* Time(filenameToDatetime(ff_basename)): the observation time is a function
\* of the file's base name alone.
ObsTime(ff_basename) == <<"time", ff_basename>>

\* Mutant of header_meta: EXPTIME by floor division.
HeaderMetaFloorDiv(cfg, ff_basename) ==
    LET obstime == ObsTime(ff_basename)
    IN  << <<"OBSERVER", Chars(Strip(cfg.stationID))>>,
           <<"INSTRUME", Str("Global Meteor Network")>>,
           <<"MJD-OBS", <<"mjd", obstime>> >>,
           <<"DATE-OBS", <<"fits", obstime>> >>,
           <<"NFRAMES", Num(NFRAMES, 1)>>,
           <<"EXPTIME", Num(NFRAMES \div cfg.fps, 1)>>,
           <<"SITELONG", Round2(cfg.longitude)>>,
           <<"SITELAT", Round2(cfg.latitude)>> >>

\* header_meta
HeaderMeta(cfg, ff_basename) ==
    LET obstime == ObsTime(ff_basename)
    IN  << <<"OBSERVER", Chars(Strip(cfg.stationID))>>,
           <<"INSTRUME", Str("Global Meteor Network")>>,
           <<"MJD-OBS", <<"mjd", obstime>> >>,
           <<"DATE-OBS", <<"fits", obstime>> >>,
           <<"NFRAMES", Num(NFRAMES, 1)>>,
           <<"EXPTIME", Quot(NFRAMES, cfg.fps)>>,
           <<"SITELONG", Round2(cfg.longitude)>>,
           <<"SITELAT", Round2(cfg.latitude)>> >>

\* w: the WCS fitted through the reference stars of the fallback platepar,
\* projected to the sky with the platepar resolved for the image at the
\* image's middle time.
FitWcs(pp, fallback_platepar, ff_basename) ==
    <<"wcs", pp, fallback_platepar, ff_basename>>

\* w.to_fits(relax=True)[0].header: the projection keywords, then the cards
\* the serialisation adds of its own (extra).
WcsToFits(w, extra) ==
    << <<"CTYPE1", Str("RA---ZEA")>>, <<"CRVAL1", w>> >> \o extra

RECURSIVE AppendAll(_, _)
AppendAll(h, cards) ==
    IF cards = <<>> THEN h
    ELSE AppendAll(HeaderAppend(h, Head(cards)[1], Head(cards)[2]), Tail(cards))

\* Mutants of new_header: the fixed metadata ahead of the WCS cards; the WCS
\* cards whatever NAXIS is; no WCS cards at all.
NewHeaderMetaFirst(header, w, extra, header_meta) ==
    AppendAll(header_meta,
              IF HeaderGet(header, "NAXIS") = Num(0, 1)
              THEN <<>>
              ELSE WcsToFits(w, extra))

NewHeaderAlwaysWcs(header, w, extra, header_meta) ==
    AppendAll(WcsToFits(w, extra), header_meta)

NewHeaderNeverWcs(header, w, extra, header_meta) ==
    AppendAll(<<>>, header_meta)

\* new_header: the candidate header of one segment
NewHeader(header, w, extra, header_meta) ==
    AppendAll(IF HeaderGet(header, "NAXIS") = Num(0, 1)
              THEN <<>>
              ELSE WcsToFits(w, extra),
              header_meta)

\* Mutants of the merge: every candidate card assigned, present or not; every
\* candidate card appended, present or not.
RECURSIVE MergeOverwrite(_, _)
MergeOverwrite(header, new_header) ==
    IF new_header = <<>> THEN header
    ELSE MergeOverwrite(HeaderSet(header, Head(new_header)[1], Head(new_header)[2]),
                        Tail(new_header))

MergeAppend(header, new_header) == header \o new_header

\* The merge of the candidate header into the segment's header.
RECURSIVE Merge(_, _)
Merge(header, new_header) ==
    IF new_header = <<>> THEN header
    ELSE LET key == Head(new_header)[1]
             value == Head(new_header)[2]
         IN  Merge(IF HasKey(header, key) THEN header
                   ELSE HeaderSet(header, key, value),
                   Tail(new_header))

\* The loop over hdu_list: every segment merged with its candidate header.
Augment(hdu_list, w, extra, header_meta) ==
    [s \in 1..Len(hdu_list) |->
        Merge(hdu_list[s], NewHeader(hdu_list[s], w, extra, header_meta))]

\* ----------------------------------------------------------- environment
\* The base name of the k-th file the glob yields in the directory of
\* instance i.
BaseName(i, k) == <<i, k>>

\* Calibration models: the bundled default, the directory's own default, a
\* freshly constructed Platepar(), and the recalibrated model of one image.
BundledPlatepar == <<"rms", 0, 0>>
DirPlatepar(i) == <<"dir", i, 0>>
BlankPlatepar == <<"blank", 0, 0>>
Recalibrated(name) == <<"recal", name[1], name[2]>>

\* A payload of the recalibration table no calibration model can be made of,
\* and the content of platepar_tmp.cal before any write and right after it is
\* opened for writing.
Malformed == <<"malformed", 0, 0>>
NoFile == <<"nofile", 0, 0>>
Empty == <<"empty", 0, 0>>

BundledConfig ==
    [stationID |-> <<"X", "X", "1">>, fps |-> 25,
     longitude |-> 6396, latitude |-> 52915]
DirConfigs ==
    { [stationID |-> <<" ", "N", "L", " ">>, fps |-> 30,
       longitude |-> -71125, latitude |-> 52915] }

\* Cards a segment may hold before the run, besides NAXIS.
PreHeaders ==
    { <<>>,
      << <<"NFRAMES", Num(128, 1)>>, <<"EXPTIME", Num(5, 1)>> >>,
      << <<"CRVAL1", Str("old")>>, <<"MJD-OBS", Str("old")>> >> }

Hdus == { <<<<"NAXIS", Num(n, 1)>>>> \o pre : n \in {0, 2}, pre \in PreHeaders }

RECURSIVE SeqsUpTo(_, _)
SeqsUpTo(S, n) ==
    IF n = 0 THEN {<<>>}
    ELSE LET shorter == SeqsUpTo(S, n - 1)
         IN  shorter \cup {Append(q, x) : q \in shorter, x \in S}

\* Every file of one to MaxHdus segments.
Files == SeqsUpTo(Hdus, MaxHdus) \ {<<>>}

\* The file the capture system writes: a primary segment without pixels,
\* then an image segment.
CaptureFile == << <<<<"NAXIS", Num(0, 1)>>>>, <<<<"NAXIS", Num(2, 1)>>>> >>

\* The directories: one file of any shape, or up to MaxFiles capture files.
Dirs == {<<f>> : f \in Files} \cup SeqsUpTo({CaptureFile}, MaxFiles)

\* The recalibration tables of a directory of n files: each file has no
\* entry, a well-formed one or a malformed one.
Tables(i, n) ==
    UNION { { t \in [names -> {Malformed} \cup {Recalibrated(m) : m \in names}] :
                \A m \in names : t[m] \in {Malformed, Recalibrated(m)} } :
            names \in SUBSET {BaseName(i, k) : k \in 1..n} }

\* What the serialisation of a WCS adds to the projection keywords: nothing,
\* or the observation date the WCS carries.
WcsExtras == { <<>>, << <<"MJD-OBS", Str("wcs")>> >> }

VARIABLES
    dirConfig,      \* per instance: <<>> or <<the .config of the directory>>
    dirTable,       \* per instance: <<>> or <<platepars_all_recalibrated.json>>
    dirPlatepar,    \* per instance: whether platepar_cmn2010.cal is there
    wcsExtra,       \* the cards the WCS serialisation adds
    cwd,            \* the working directory: "ok", "gone" or "readonly"
    disk,           \* per instance: the FF files of the directory
    tmpfile,        \* platepar_tmp.cal in the working directory
    pc,             \* per instance: position in main / add_fffits_metadata
    run,            \* per instance: how many times the driver was started
    idx,            \* per instance: the position of the for loop in the glob
    config,         \* per instance: config
    table,          \* per instance: platepars_recalibrated
    fallback,       \* per instance: global_platepar
    platepar,       \* per instance: platepar_recalibrated
    log,            \* per instance: the records logged by this run
    raised,         \* per instance: the error that ended the run, if any
    atStart,        \* per instance: the directory as the current run found it
    processed,      \* per instance: the files rewritten by this run
    wcs,            \* per instance: w, of the file rewritten last
    prior           \* per instance: the files rewritten by an earlier run

vars ==
    <<dirConfig, dirTable, dirPlatepar, wcsExtra, cwd, disk, tmpfile, pc, run,
      idx, config, table, fallback, platepar, log, raised, atStart, processed,
      wcs, prior>>

inputs == <<dirConfig, dirTable, dirPlatepar, wcsExtra, cwd>>

NoError == <<"none", "none">>
NoTable == [x \in {} |-> Malformed]

\* ------------------------------------------------------------ operations
Warning(message, subject) == <<"WARNING", message, subject>>
Info(message, subject) == <<"INFO", message, subject>>

\* main, up to the loop: the configuration, the recalibration table and the
\* default calibration are loaded, each with its fallback and its warning.
Main(i) ==
    /\ pc[i] = "start"
    /\ LET noConfig == dirConfig[i] = <<>>
           noTable == dirTable[i] = <<>>
           w1 == IF noConfig
                 THEN <<Warning("Could not find .config", <<i, 0>>)>> ELSE <<>>
           w2 == IF noTable
                 THEN <<Warning("Could not find platepars_recalibrated", <<i, 0>>)>>
                 ELSE <<>>
           w3 == IF dirPlatepar[i] THEN <<>>
                 ELSE <<Warning("Couldn't find platepar_cmn2010.cal", <<i, 0>>)>>
       IN  /\ config' = [config EXCEPT
                  ![i] = IF noConfig THEN BundledConfig ELSE dirConfig[i][1]]
           /\ table' = [table EXCEPT
                  ![i] = IF noTable THEN NoTable ELSE dirTable[i][1]]
           /\ fallback' = [fallback EXCEPT
                  ![i] = IF dirPlatepar[i] THEN DirPlatepar(i) ELSE BundledPlatepar]
           /\ log' = [log EXCEPT ![i] = @ \o w1 \o w2 \o w3]
    /\ idx' = [idx EXCEPT ![i] = 1]
    /\ pc' = [pc EXCEPT ![i] = "loop"]
    /\ UNCHANGED <<inputs, disk, tmpfile, run, platepar, raised, atStart,
                   processed, wcs, prior>>

\* The for loop of main: the next file of the glob, or the end of the run.
Loop(i) ==
    /\ pc[i] = "loop"
    /\ IF idx[i] <= Len(disk[i])
       THEN /\ log' = [log EXCEPT
                   ![i] = Append(@, Info("Updating", BaseName(i, idx[i])))]
            /\ pc' = [pc EXCEPT ![i] = "lookup"]
       ELSE /\ pc' = [pc EXCEPT ![i] = "done"]
            /\ log' = log
    /\ UNCHANGED <<inputs, disk, tmpfile, run, idx, config, table, fallback,
                   platepar, raised, atStart, processed, wcs, prior>>

\* The errors the except clause of the calibration resolution names.
Caught == {"FileNotFoundError", "KeyError"}

\* Mutant of the except clause: the warning is logged and the default
\* calibration is not selected.
RaiseInTryKeepsBlank(i, e) ==
    IF e \in {"FileNotFoundError", "KeyError"}
    THEN /\ platepar' = [platepar EXCEPT ![i] = BlankPlatepar]
         /\ log' = [log EXCEPT
                ![i] = Append(@, <<"WARNING", "Using non-recalibrated platepar for",
                                  BaseName(i, idx[i])>>)]
         /\ pc' = [pc EXCEPT ![i] = "compute"]
         /\ raised' = raised
    ELSE /\ platepar' = [platepar EXCEPT ![i] = BlankPlatepar]
         /\ log' = log
         /\ pc' = [pc EXCEPT ![i] = "aborted"]
         /\ raised' = [raised EXCEPT ![i] = <<"resolve", e>>]

\* An error raised inside the try block: a caught one selects the default
\* calibration and logs the warning, any other one leaves the function and,
\* main catching nothing, ends the run.
RaiseInTry(i, e) ==
    IF e \in Caught
    THEN /\ platepar' = [platepar EXCEPT ![i] = fallback[i]]
         /\ log' = [log EXCEPT
                ![i] = Append(@, Warning("Using non-recalibrated platepar for",
                                         BaseName(i, idx[i])))]
         /\ pc' = [pc EXCEPT ![i] = "compute"]
         /\ raised' = raised
    ELSE /\ platepar' = [platepar EXCEPT ![i] = BlankPlatepar]
         /\ log' = log
         /\ pc' = [pc EXCEPT ![i] = "aborted"]
         /\ raised' = [raised EXCEPT ![i] = <<"resolve", e>>]

\* Mutant of the driver: the error of one file is swallowed and the loop goes
\* on with the next file.
RaiseAndContinue(i, e) ==
    /\ pc' = [pc EXCEPT ![i] = "loop"]
    /\ raised' = raised
    /\ idx' = [idx EXCEPT ![i] = @ + 1]

\* An error raised outside the try block: nothing catches it.
Raise(i, e) ==
    /\ pc' = [pc EXCEPT ![i] = "aborted"]
    /\ raised' = [raised EXCEPT ![i] = <<"process", e>>]
    /\ idx' = idx

\* add_fffits_metadata, the table lookup and the opening of platepar_tmp.cal
\* for writing, which empties the file. The opening fails in a working
\* directory that is gone (no such file) or not writable (no permission).
Lookup(i) ==
    /\ pc[i] = "lookup"
    /\ IF BaseName(i, idx[i]) \notin DOMAIN table[i]
       THEN /\ RaiseInTry(i, "KeyError")
            /\ tmpfile' = tmpfile
       ELSE \/ /\ cwd = "ok"
               /\ tmpfile' = Empty
               /\ platepar' = [platepar EXCEPT ![i] = BlankPlatepar]
               /\ pc' = [pc EXCEPT ![i] = "dump"]
               /\ UNCHANGED <<log, raised>>
            \/ /\ cwd = "gone"
               /\ RaiseInTry(i, "FileNotFoundError")
               /\ tmpfile' = tmpfile
            \/ /\ cwd = "readonly"
               /\ RaiseInTry(i, "PermissionError")
               /\ tmpfile' = tmpfile
    /\ UNCHANGED <<inputs, disk, run, idx, config, table, fallback, atStart,
                   processed, wcs, prior>>

\* Mutant of the write: the payload is still in the buffer when the file is
\* read back.
DumpUnflushed(i) ==
    /\ pc[i] = "dump"
    /\ pc' = [pc EXCEPT ![i] = "read"]
    /\ UNCHANGED <<inputs, disk, tmpfile, run, idx, config, table, fallback,
                   platepar, log, raised, atStart, processed, wcs, prior>>

\* json.dump and the closing of platepar_tmp.cal: the payload is in the file.
Dump(i) ==
    /\ pc[i] = "dump"
    /\ tmpfile' = table[i][BaseName(i, idx[i])]
    /\ pc' = [pc EXCEPT ![i] = "read"]
    /\ UNCHANGED <<inputs, disk, run, idx, config, table, fallback, platepar,
                   log, raised, atStart, processed, wcs, prior>>

\* platepar_recalibrated.read("platepar_tmp.cal"): the model is made of what
\* the file holds now; a content no model can be made of raises.
Read(i) ==
    /\ pc[i] = "read"
    /\ IF tmpfile \in {Malformed, Empty}
       THEN \E e \in {"KeyError", "TypeError"} : RaiseInTry(i, e)
       ELSE /\ platepar' = [platepar EXCEPT ![i] = tmpfile]
            /\ pc' = [pc EXCEPT ![i] = "compute"]
            /\ UNCHANGED <<log, raised>>
    /\ UNCHANGED <<inputs, disk, tmpfile, run, idx, config, table, fallback,
                   atStart, processed, wcs, prior>>

\* add_fffits_metadata from the middle time on: the WCS is fitted, the file
\* opened, every segment merged and the file written back. An error of the
\* fit, of the opening or of the writing ends the run; a failed write leaves
\* the file as it was or cut short.
ProcessFile(i) ==
    /\ pc[i] = "compute"
    /\ LET k == idx[i]
           ff_basename == BaseName(i, k)
           w == FitWcs(platepar[i], fallback[i], ff_basename)
           hdu_list == disk[i][k]
       IN  \/ /\ hdu_list # <<>>
              /\ disk' = [disk EXCEPT
                     ![i][k] = Augment(hdu_list, w, wcsExtra,
                                       HeaderMeta(config[i], ff_basename))]
              /\ processed' = [processed EXCEPT ![i] = @ \cup {k}]
              /\ wcs' = [wcs EXCEPT ![i] = w]
              /\ idx' = [idx EXCEPT ![i] = k + 1]
              /\ pc' = [pc EXCEPT ![i] = "loop"]
              /\ raised' = raised
           \/ /\ Raise(i, "OSError")
              /\ UNCHANGED <<disk, processed, wcs>>
           \/ /\ hdu_list # <<>>
              /\ Raise(i, "OSError")
              /\ disk' = [disk EXCEPT ![i][k] = <<>>]
              /\ UNCHANGED <<processed, wcs>>
    /\ UNCHANGED <<inputs, tmpfile, run, config, table, fallback, platepar, log,
                   atStart, prior>>

\* The driver is started again over the same directory.
Rerun(i) ==
    /\ pc[i] \in {"done", "aborted"}
    /\ run[i] < MaxRuns
    /\ run' = [run EXCEPT ![i] = @ + 1]
    /\ pc' = [pc EXCEPT ![i] = "start"]
    /\ idx' = [idx EXCEPT ![i] = 0]
    /\ log' = [log EXCEPT ![i] = <<>>]
    /\ raised' = [raised EXCEPT ![i] = NoError]
    /\ atStart' = [atStart EXCEPT ![i] = disk[i]]
    /\ prior' = [prior EXCEPT ![i] = @ \cup processed[i]]
    /\ processed' = [processed EXCEPT ![i] = {}]
    /\ UNCHANGED <<inputs, disk, tmpfile, config, table, fallback, platepar, wcs>>

Next ==
    \E i \in Instances :
        \/ Main(i)
        \/ Loop(i)
        \/ Lookup(i)
        \/ Dump(i)
        \/ Read(i)
        \/ ProcessFile(i)
        \/ Rerun(i)

\* What a directory may hold besides its FF files.
ConfigFiles == {<<>>} \cup {<<c>> : c \in DirConfigs}
TableFiles(i, n) == {<<>>} \cup {<<t>> : t \in Tables(i, n)}

\* The state before the drivers of the instances in started begin, each over
\* the directory d[i].
Start(d, cfg, tbl, pp, extra, wd, started) ==
    /\ disk = d
    /\ dirConfig = cfg
    /\ dirTable = tbl
    /\ dirPlatepar = pp
    /\ wcsExtra = extra
    /\ cwd = wd
    /\ tmpfile = NoFile
    /\ pc = [i \in Instances |-> IF i \in started THEN "start" ELSE "off"]
    /\ run = [i \in Instances |-> IF i \in started THEN 1 ELSE 0]
    /\ idx = [i \in Instances |-> 0]
    /\ config = [i \in Instances |-> BundledConfig]
    /\ table = [i \in Instances |-> NoTable]
    /\ fallback = [i \in Instances |-> BundledPlatepar]
    /\ platepar = [i \in Instances |-> BlankPlatepar]
    /\ log = [i \in Instances |-> <<>>]
    /\ raised = [i \in Instances |-> NoError]
    /\ atStart = d
    /\ processed = [i \in Instances |-> {}]
    /\ wcs = [i \in Instances |-> FitWcs(BlankPlatepar, BundledPlatepar, <<i, 0>>)]
    /\ prior = [i \in Instances |-> {}]

\* One driver, over any directory; the directory carries its own .config and
\* platepar_cmn2010.cal, or neither.
Init ==
    \E d \in Dirs, c \in ConfigFiles, x \in WcsExtras,
       wd \in {"ok", "gone", "readonly"} :
        \E t \in TableFiles(1, Len(d)) :
            Start([i \in Instances |-> IF i = 1 THEN d ELSE <<>>],
                  [i \in Instances |-> IF i = 1 THEN c ELSE <<>>],
                  [i \in Instances |-> IF i = 1 THEN t ELSE <<>>],
                  [i \in Instances |-> i = 1 /\ c # <<>>],
                  x, wd, {1})

Spec == Init /\ [][Next]_vars

\* Two drivers in one working directory, each over one capture file of a
\* directory of its own; the second may not be started at all.
InitRace ==
    \E started \in {{1}, {1, 2}} :
        \E t1 \in TableFiles(1, 1), t2 \in TableFiles(2, 1) :
            Start([i \in Instances |-> <<CaptureFile>>],
                  [i \in Instances |-> <<>>],
                  [i \in Instances |-> IF i = 1 THEN t1 ELSE t2],
                  [i \in Instances |-> TRUE],
                  <<>>, "ok", started)

SpecRace == InitRace /\ [][Next]_vars

\* ---------------------------------------------------------------- claims
Naxis(header) == HeaderGet(header, "NAXIS")

\* The segments <<i, k, s>> of the files this run of instance i has rewritten.
Segments ==
    {seg \in Instances \X (1..MaxFiles) \X (1..MaxHdus) :
        /\ seg[2] \in processed[seg[1]]
        /\ seg[3] <= Len(atStart[seg[1]][seg[2]])}
Before(seg) == atStart[seg[1]][seg[2]][seg[3]]
After(seg) == disk[seg[1]][seg[2]][seg[3]]

\* Instance i has just rewritten the file at idx[i] - 1: wcs[i] is its w.
JustRewritten(i) == pc[i] = "loop" /\ idx[i] > 1
Last(i) == idx[i] - 1
LastSegments ==
    {seg \in Segments : JustRewritten(seg[1]) /\ seg[2] = Last(seg[1])}
MetaOf(seg) == HeaderMeta(config[seg[1]], BaseName(seg[1], seg[2]))
WcsOf(seg) == WcsToFits(wcs[seg[1]], wcsExtra)
KeysOf(header) == {header[n][1] : n \in 1..Len(header)}

\* C1: a key a segment's header holds before the run has the same value after
\* it, whether the candidate header brings it from the WCS or from the fixed
\* metadata; the file keeps its segments.
C1_NoOverwrite ==
    \A seg \in Segments :
        /\ Len(disk[seg[1]][seg[2]]) = Len(atStart[seg[1]][seg[2]])
        /\ \A key \in KeysOf(Before(seg)) :
               /\ HasKey(After(seg), key)
               /\ HeaderGet(After(seg), key) = HeaderGet(Before(seg), key)

C1_Witness ==
    \E seg \in Segments :
        /\ Naxis(Before(seg)) # Num(0, 1)
        /\ HasKey(Before(seg), "CRVAL1")
        /\ HasKey(Before(seg), "MJD-OBS")
        /\ \E other \in Segments :
               /\ other[1] = seg[1] /\ other[2] = seg[2]
               /\ HasKey(Before(other), "EXPTIME")

\* C2 (as stated): a key absent before the run holds, after it, the value of
\* every card of that key in the candidate header.
C2_EveryCandidateValue ==
    \A seg \in LastSegments :
        LET cand == NewHeader(Before(seg), wcs[seg[1]], wcsExtra, MetaOf(seg))
        IN  \A n \in 1..Len(cand) :
                ~HasKey(Before(seg), cand[n][1]) =>
                    /\ HasKey(After(seg), cand[n][1])
                    /\ HeaderGet(After(seg), cand[n][1]) = cand[n][2]

\* C2 (amended): a key absent before the run holds, after it, the value of
\* its first card in the candidate header: the WCS value when the segment has
\* pixels and the serialised WCS carries the key, the fixed metadata value
\* otherwise.
C2_FirstCandidateValue ==
    \A seg \in LastSegments :
        LET pixels == Naxis(Before(seg)) # Num(0, 1)
        IN  \A key \in (FixedKeys \cup KeysOf(WcsOf(seg))) \ KeysOf(Before(seg)) :
                IF pixels /\ key \in KeysOf(WcsOf(seg))
                THEN /\ HasKey(After(seg), key)
                     /\ HeaderGet(After(seg), key) = HeaderGet(WcsOf(seg), key)
                ELSE key \in FixedKeys =>
                     /\ HasKey(After(seg), key)
                     /\ HeaderGet(After(seg), key) = HeaderGet(MetaOf(seg), key)

C2_Witness ==
    \E seg \in LastSegments :
        /\ Naxis(Before(seg)) # Num(0, 1)
        /\ "MJD-OBS" \in KeysOf(WcsOf(seg))
        /\ ~HasKey(Before(seg), "MJD-OBS")
        /\ HeaderGet(After(seg), "MJD-OBS") = Str("wcs")

\* C3 (as stated): after the run the first segment holds no WCS projection
\* keyword.
C3_FirstSegmentNeverWcs ==
    \A seg \in Segments :
        seg[3] = 1 => \A key \in WcsKeys : ~HasKey(After(seg), key)

\* C3 (amended): a first segment whose NAXIS is 0 gains no WCS projection
\* keyword: it holds one after the run only if it held it before.
C3_NoPixelsNoNewWcs ==
    \A seg \in Segments :
        (seg[3] = 1 /\ Naxis(Before(seg)) = Num(0, 1)) =>
            \A key \in WcsKeys : HasKey(After(seg), key) => HasKey(Before(seg), key)

C3_Witness ==
    \E seg \in Segments :
        /\ seg[3] = 1
        /\ Naxis(Before(seg)) = Num(0, 1)
        /\ \A key \in WcsKeys : ~HasKey(After(seg), key)
        /\ HasKey(After(seg), "OBSERVER")
        /\ \E other \in Segments :
               /\ other[1] = seg[1] /\ other[2] = seg[2] /\ other[3] = 2
               /\ HasKey(After(other), "CTYPE1")

\* C4 (as stated): after the run every segment but the first holds every WCS
\* key and every fixed metadata key.
C4_LaterSegmentsGetAll ==
    \A seg \in Segments :
        seg[3] > 1 => \A key \in WcsKeys \cup FixedKeys : HasKey(After(seg), key)

\* C4 (amended): after the run every segment but the first whose NAXIS is not
\* 0 holds every WCS key and every fixed metadata key, and its header has
\* grown by exactly the candidate keys it did not hold.
C4_PixelSegmentsGetAll ==
    \A seg \in Segments :
        (seg[3] > 1 /\ Naxis(Before(seg)) # Num(0, 1)) =>
            /\ \A key \in WcsKeys \cup FixedKeys : HasKey(After(seg), key)
            /\ Len(After(seg)) - Len(Before(seg)) =
                   Cardinality((WcsKeys \cup FixedKeys \cup KeysOf(wcsExtra))
                               \ KeysOf(Before(seg)))

C4_Witness ==
    \E seg \in Segments :
        /\ seg[3] > 1
        /\ Naxis(Before(seg)) # Num(0, 1)
        /\ HasKey(Before(seg), "CRVAL1")
        /\ ~HasKey(Before(seg), "CTYPE1")
        /\ HasKey(After(seg), "CTYPE1")

\* C5 (as stated): no failure of the calibration resolution ends the run.
C5_ResolutionNeverAborts ==
    \A i \in Instances : pc[i] = "aborted" => raised[i][1] # "resolve"

\* What the run writes for file k when platepars_recalibrated is empty: the
\* lookup fails for every file and the default calibration is used.
NoTableOutput(i, k) ==
    Augment(atStart[i][k],
            FitWcs(fallback[i], fallback[i], BaseName(i, k)),
            wcsExtra,
            HeaderMeta(config[i], BaseName(i, k)))

\* C6: a file without an entry in a recalibration table that is there is
\* rewritten with the warning logged, the default calibration used, and the
\* content the run writes for it when the table is not there, that is, when
\* platepars_recalibrated is empty.
C6_MissingEntryAsNoTable ==
    \A i \in Instances :
        (JustRewritten(i) /\ BaseName(i, Last(i)) \notin DOMAIN table[i]) =>
            /\ \E n \in 1..Len(log[i]) :
                   log[i][n] = Warning("Using non-recalibrated platepar for",
                                       BaseName(i, Last(i)))
            /\ wcs[i] = FitWcs(fallback[i], fallback[i], BaseName(i, Last(i)))
            /\ disk[i][Last(i)] = NoTableOutput(i, Last(i))

C6_Witness ==
    \E i \in Instances :
        /\ JustRewritten(i)
        /\ dirTable[i] # <<>>
        /\ DOMAIN table[i] # {}
        /\ BaseName(i, Last(i)) \notin DOMAIN table[i]
        /\ disk[i][Last(i)] = NoTableOutput(i, Last(i))

\* C7 (as stated): after the run EXPTIME is 256 / fps in every segment.
C7_ExptimeEverywhere ==
    \A seg \in Segments :
        LET v == HeaderGet(After(seg), "EXPTIME")
        IN  v[2] * config[seg[1]].fps = 256 * v[3]

\* C7 (amended): after the run EXPTIME is 256 / fps in every segment that had
\* no EXPTIME before it.
C7_ExptimeWhereAdded ==
    \A seg \in Segments :
        ~HasKey(Before(seg), "EXPTIME") =>
            /\ HasKey(After(seg), "EXPTIME")
            /\ LET v == HeaderGet(After(seg), "EXPTIME")
               IN  v[1] = "num" /\ v[2] * config[seg[1]].fps = 256 * v[3]

C7_Witness ==
    \E seg \in Segments :
        /\ ~HasKey(Before(seg), "EXPTIME")
        /\ config[seg[1]].fps = 30
        /\ HeaderGet(After(seg), "EXPTIME") = Num(128, 15)

\* A file with its augmented header: every segment carries the fixed metadata.
Augmented(hdu_list) ==
    /\ hdu_list # <<>>
    /\ \A s \in 1..Len(hdu_list) : FixedKeys \subseteq KeysOf(hdu_list[s])

\* C8: the files are rewritten in the order of the glob, one at a time, and
\* an error ends the run: the files before the current one are rewritten and
\* carry the fixed metadata, the files after it are as the run found them,
\* and so is the current one until it is rewritten or its write fails.
C8_SequentialNoCatch ==
    \A i \in Instances :
        /\ processed[i] = 1..(idx[i] - 1)
        /\ \A k \in processed[i] : Augmented(disk[i][k])
        /\ \A k \in 1..Len(disk[i]) :
               (k > idx[i] \/ (k = idx[i] /\ pc[i] # "aborted")) =>
                   disk[i][k] = atStart[i][k]
        /\ pc[i] = "done" => idx[i] = Len(disk[i]) + 1

C8_Witness ==
    \E i \in Instances :
        /\ pc[i] = "aborted"
        /\ raised[i][1] = "process"
        /\ idx[i] = 2
        /\ Len(disk[i]) = 3
        /\ Augmented(disk[i][1])
        /\ disk[i][1] # atStart[i][1]
        /\ disk[i][3] = atStart[i][3]

\* The other instances started in the same working directory.
Others(i) == {j \in Instances \ {i} : pc[j] # "off"}

\* C9: what an instance reads back from platepar_tmp.cal is the payload it
\* wrote for the current image, unless another instance runs in the same
\* working directory; then it may be what that instance left in the file.
C9_ReadBack ==
    \A i \in Instances :
        LET own == table[i][BaseName(i, idx[i])]
        IN  /\ pc[i] = "read" =>
                \/ tmpfile = own
                \/ \E j \in Others(i) :
                       tmpfile \in {Empty} \cup {table[j][m] : m \in DOMAIN table[j]}
            /\ (pc[i] = "compute" /\ platepar[i] # fallback[i]) =>
                \/ platepar[i] = own
                \/ \E j \in Others(i) :
                       platepar[i] \in {table[j][m] : m \in DOMAIN table[j]}

C9_Witness ==
    \E i \in Instances, j \in Instances :
        /\ i # j
        /\ JustRewritten(i)
        /\ BaseName(i, Last(i)) \in DOMAIN table[i]
        /\ table[i][BaseName(i, Last(i))] = Recalibrated(BaseName(i, Last(i)))
        /\ wcs[i] = FitWcs(Recalibrated(BaseName(j, 1)), fallback[i],
                           BaseName(i, Last(i)))
        /\ HeaderGet(disk[i][Last(i)][2], "CRVAL1") = wcs[i]

\* C10: a file an earlier run has rewritten is left by a later run exactly as
\* that run found it.
C10_RerunIdempotent ==
    \A i \in Instances :
        \A k \in processed[i] \cap prior[i] : disk[i][k] = atStart[i][k]

C10_Witness ==
    \E i \in Instances :
        /\ run[i] = 2
        /\ pc[i] = "done"
        /\ Len(disk[i]) = 2
        /\ processed[i] = {1, 2}
        /\ prior[i] = {1, 2}
        /\ disk[i] = atStart[i]

====
